---- MODULE Spec2Model ----
(***************************************************************************)
(* Order placement, simulated payment and admin order/product edits of the *)
(* Next-Study shop, as a state machine over the database tables.           *)
(*                                                                         *)
(* Every HTTP handler is cut at its database calls: one action per         *)
(* database statement (or interactive-transaction statement), with the     *)
(* handler's local computation folded into the statement that precedes it. *)
(* Statements of an interactive transaction (prisma.$transaction) collect  *)
(* pending writes that other requests cannot see; they reach the tables    *)
(* together at commit, or not at all when the transaction throws.          *)
(***************************************************************************)
EXTENDS Integers, Sequences, FiniteSets, TLC

VARIABLES
    products,    \* Product table: id -> [stock, isActive, price, live]
    cartItems,   \* CartItem table: user -> its rows in id order, [productId, quantity]
    addresses,   \* Address table: id -> [userId, detail, isDefault, live]
    orders,      \* Order table with its OrderItem rows:
                 \*   id -> [userId, orderNo, status, totalAmount, address, items]
    orderReq,    \* POST /api/orders requests in flight
    payReq,      \* POST /api/payment requests in flight
    cartReq,     \* cart requests in flight (POST /api/cart, PATCH and DELETE /api/cart/:id)
    addrReq,     \* address requests in flight (POST, PUT, DELETE /api/user/addresses)
    delReq,      \* DELETE /api/admin/products/:id requests in flight
    response,    \* the HTTP response returned last
    users,       \* User table: id -> role
    sessions     \* the JWT each account holds: id -> the role written at sign-in

vars == <<products, cartItems, addresses, orders, orderReq, payReq, cartReq, addrReq, delReq,
          response, users, sessions>>
db == <<products, cartItems, addresses, orders>>

----------------------------------------------------------------------------
(* Bounds of the model *)

MaxOrderReqs == 2      \* create-order requests per behaviour
MaxPayReqs == 2        \* payment requests per behaviour
MaxCartReqs == 2       \* add-to-cart requests per behaviour
MaxQtyInput == 2       \* largest quantity a cart request asks for
InitStock == 2         \* stock of the seeded products
MaxProducts == 3       \* product ids the model uses
TicksPerCent == 1000   \* resolution at which a JavaScript number is followed
MaxSuffix == 1         \* largest random suffix of an order number
MaxAddresses == 4      \* address ids the model uses
MaxAddrReqs == 2       \* address requests per behaviour
MaxDelReqs == 1        \* product delete requests per behaviour

MaxCartQuantity == 99  \* addToCartSchema, updateCartSchema: quantity max
BulkStock == 200       \* the largest stock of a seeded product

----------------------------------------------------------------------------
(* Identities *)

NoUser == "anonymous"                 \* auth() returned no session
UserIds == {"u1", "u2"}               \* customers (role USER)
AdminId == "admin"                    \* the one account with role ADMIN
Callers == UserIds \cup {AdminId, NoUser}
Accounts == UserIds \cup {AdminId}      \* the rows of the User table
Role(u) == sessions[u]                 \* session.user.role: the role in the caller's JWT
Roles == {"USER", "ADMIN"}
RoleInputs == Roles \cup {"ROOT"}       \* body.role of a role update
TargetInputs == Accounts \cup {"", "ghost"}  \* body.userId: "" is missing, ghost names no row

SeededProducts == {1, 2}               \* the catalogue after seeding
ProductIds == 1 .. MaxProducts
PriceInputs == {10, 25}                \* prices in cents: 0.10 and 0.25
AddressIds == {1, 2}                   \* the addresses after seeding
AddressInputs == {0, 1, 2, 3}            \* 0 fails the schema, 3 names no row
DetailInputs == {"home", "office"}      \* contents of an address form
Suffixes == 0 .. MaxSuffix             \* Math.floor(Math.random() * 1000000)
QtyInputs == 0 .. MaxQtyInput
StockInputs == (-1) .. InitStock       \* body.stock of an admin product PATCH
OrderReqs == 1 .. MaxOrderReqs
PayReqs == 1 .. MaxPayReqs
CartReqs == 1 .. MaxCartReqs
AddrReqs == 1 .. MaxAddrReqs
DelReqs == 1 .. MaxDelReqs
OrderIdInputs == 0 .. 3                \* 0 is a missing orderId, 3 names no row

validStatuses == {"PENDING", "PAID", "SHIPPED", "COMPLETED", "CANCELLED"}
StatusInputs == validStatuses \cup {"REFUNDED"}

\* A response: the route that answered, its outcome, the caller, the product,
\* order or set of orders it names (ref), the status before (from) and a detail.
Response(route, kind, u, ref, from, detail) ==
    [route |-> route, kind |-> kind, userId |-> u, ref |-> ref, from |-> from, detail |-> detail]
NoResponse == Response("none", "none", NoUser, 0, "none", "none")

----------------------------------------------------------------------------
(* Pure helpers of the handlers *)

\* The Product table keeps the rows it deleted as not live, so that the next
\* auto-increment id is the number of rows ever inserted plus one.
Existing == {p \in DOMAIN products : products[p].live}

\* cartItem.findMany({ where: { userId }, include: { product: true } })
JoinCart(u) ==
    [i \in 1 .. Len(cartItems[u]) |->
        [productId |-> cartItems[u][i].productId,
         quantity  |-> cartItems[u][i].quantity,
         product   |-> products[cartItems[u][i].productId]]]

\* The Address table keeps the rows it deleted as not live, so that the next
\* auto-increment id is the number of rows ever inserted plus one.
LiveAddresses == {a \in DOMAIN addresses : addresses[a].live}

\* address.findFirst({ where: { id, userId } })
AddressFound(a, u) == a \in LiveAddresses /\ addresses[a].userId = u

\* JSON.stringify({ name, phone, province, city, district, detail }) of the row read.
AddressSnapshot(row) == [detail |-> row.detail]

\* generateOrderNo(): ORD, the date and six random digits; all requests of a
\* behaviour fall on one day.
generateOrderNo(random) == <<"ORD", "today", random>>

\* The unique index on Order.orderNo refuses the insert.
OrderNoTaken_NoIndex(orderNo) == FALSE

OrderNoTaken(orderNo) == \E o \in DOMAIN orders : orders[o].orderNo = orderNo

\* The body of the validation loop for one cart line.
LineError_NoActiveCheck(item) ==
    IF item.product.stock < item.quantity THEN "InsufficientStock" ELSE "ok"

LineError(item) ==
    IF item.product.stock < item.quantity THEN "InsufficientStock"
    ELSE IF ~item.product.isActive THEN "Inactive"
    ELSE "ok"

\* The loop run to its end, with the error of the last bad line kept.
FirstBadLine_Last(snap) ==
    IF \E i \in 1 .. Len(snap) : LineError(snap[i]) # "ok"
    THEN CHOOSE i \in 1 .. Len(snap) :
            /\ LineError(snap[i]) # "ok"
            /\ \A j \in i + 1 .. Len(snap) : LineError(snap[j]) = "ok"
    ELSE 0

\* Index of the line at which the validation loop returns, 0 when it runs through.
FirstBadLine(snap) ==
    IF \E i \in 1 .. Len(snap) : LineError(snap[i]) # "ok"
    THEN CHOOSE i \in 1 .. Len(snap) :
            /\ LineError(snap[i]) # "ok"
            /\ \A j \in 1 .. i - 1 : LineError(snap[j]) = "ok"
    ELSE 0

\* A JavaScript number (an IEEE double), followed at a resolution of
\* 1/TicksPerCent of a cent: the double lies in lo .. hi ticks. A double that
\* holds its value exactly has lo = hi; every operation whose result is not
\* known to be exact widens the interval by one tick on each side, which is
\* more than half an ulp for amounts below 2^33 currency units.
Exactly(ticks) == [lo |-> ticks, hi |-> ticks]
IsExact(x) == x.lo = x.hi
Inexact(lo, hi) == [lo |-> lo - 1, hi |-> hi + 1]

\* Number(price) of a Decimal of cents: exact for the multiples of 0.25, the
\* nearest double otherwise.
NumberOf(cents) ==
    IF cents % 25 = 0 THEN Exactly(cents * TicksPerCent)
    ELSE Inexact(cents * TicksPerCent, cents * TicksPerCent)

\* x * quantity, for an integer quantity >= 0.
Times(x, quantity) ==
    IF IsExact(x) THEN Exactly(x.lo * quantity)
    ELSE IF x.lo * quantity <= x.hi * quantity
         THEN Inexact(x.lo * quantity, x.hi * quantity)
         ELSE Inexact(x.hi * quantity, x.lo * quantity)

\* sum + x
Plus(sum, x) ==
    IF IsExact(sum) /\ IsExact(x) THEN Exactly(sum.lo + x.lo)
    ELSE Inexact(sum.lo + x.lo, sum.hi + x.hi)

\* Number(item.product.price) * item.quantity
LineAmount_UnitPrice(item) == NumberOf(item.product.price)

LineAmount(item) == Times(NumberOf(item.product.price), item.quantity)

\* cartItems.reduce((sum, item) => sum + Number(item.product.price) * item.quantity, 0)
RECURSIVE SumLines(_, _)
SumLines(snap, n) ==
    IF n = 0 THEN Exactly(0)
    ELSE Plus(SumLines(snap, n - 1), LineAmount(snap[n]))

TotalAmount(snap) == SumLines(snap, Len(snap))

\* A number of ticks stored in a Decimal column of two fraction digits: the
\* nearest cent, halves away from zero.
RoundToCents(ticks) ==
    IF ticks >= 0 THEN (2 * ticks + TicksPerCent) \div (2 * TicksPerCent)
    ELSE -(((2 * (-ticks)) + TicksPerCent) \div (2 * TicksPerCent))

\* The values Order.totalAmount can take when the number total is written.
StoredTotals(total) == {RoundToCents(t) : t \in total.lo .. total.hi}

\* The same row with each item priced from the Product table as it is at the insert.
NewOrder_CurrentPrice(u, snap, orderNo, address, total) ==
    [userId      |-> u,
     orderNo     |-> orderNo,
     status      |-> "PENDING",
     totalAmount |-> total,
     address     |-> AddressSnapshot(address),
     items       |-> [i \in 1 .. Len(snap) |->
                        [productId |-> snap[i].productId,
                         quantity  |-> snap[i].quantity,
                         price     |-> products[snap[i].productId].price]]]

\* The row tx.order.create inserts, with its nested OrderItem rows.
NewOrder(u, snap, orderNo, address, total) ==
    [userId      |-> u,
     orderNo     |-> orderNo,
     status      |-> "PENDING",
     totalAmount |-> total,
     address     |-> AddressSnapshot(address),
     items       |-> [i \in 1 .. Len(snap) |->
                        [productId |-> snap[i].productId,
                         quantity  |-> snap[i].quantity,
                         price     |-> snap[i].product.price]]]

\* A decrement that stops at zero.
Decrement_Floored(stock, quantity) == IF stock < quantity THEN 0 ELSE stock - quantity

\* tx.product.update({ data: { stock: { decrement: quantity } } }) on one row.
Decrement_ByOne(stock, quantity) == stock - 1

Decrement(stock, quantity) == stock - quantity

\* The Product table after the first n decrements of the loop over the snapshot.
RECURSIVE DecrementStock(_, _, _)
DecrementStock(prods, snap, n) ==
    IF n = 0 THEN prods
    ELSE LET before == DecrementStock(prods, snap, n - 1)
             p == snap[n].productId
         IN  IF p \in DOMAIN before
             THEN [before EXCEPT ![p].stock = Decrement(@, snap[n].quantity)]
             ELSE before

\* A deleteMany without its where clause.
ClearCart_All(rows, u) == [w \in DOMAIN rows |-> <<>>]

\* tx.cartItem.deleteMany({ where: { userId } })
ClearCart(rows, u) == [rows EXCEPT ![u] = <<>>]

\* Row of product p in a user's cart, 0 when there is none.
CartIndex(rows, p) ==
    IF \E i \in 1 .. Len(rows) : rows[i].productId = p
    THEN CHOOSE i \in 1 .. Len(rows) : rows[i].productId = p
    ELSE 0

\* A plain insert in place of the upsert.
Upsert_Insert(rows, p, q) == Append(rows, [productId |-> p, quantity |-> q])

\* cartItem.upsert: increment the row of (user, product), or insert it.
Upsert(rows, p, q) ==
    IF CartIndex(rows, p) # 0
    THEN [rows EXCEPT ![CartIndex(rows, p)].quantity = @ + q]
    ELSE Append(rows, [productId |-> p, quantity |-> q])

----------------------------------------------------------------------------
(* Initial state: the seeded catalogue, one address per customer, no carts, *)
(* no orders, no request in flight.                                         *)

NoAddress == [userId |-> NoUser, detail |-> "none", isDefault |-> FALSE, live |-> FALSE]
IdleOrderReq ==
    [pc |-> "idle", userId |-> NoUser, address |-> NoAddress, cart |-> <<>>]
IdlePayReq == [pc |-> "idle", userId |-> NoUser, orderId |-> 0, kind |-> "none"]
IdleCartReq ==
    [pc |-> "idle", userId |-> NoUser, productId |-> 0, quantity |-> 0]
IdleAddrReq ==
    [pc |-> "idle", userId |-> NoUser, id |-> 0, detail |-> "none", isDefault |-> FALSE]
IdleDelReq == [pc |-> "idle", productId |-> 0]

SeedAddress(u) == [userId |-> u, detail |-> "home", isDefault |-> TRUE, live |-> TRUE]

InitDb ==
    /\ products = [p \in SeededProducts |-> [stock |-> InitStock, isActive |-> TRUE, price |-> 10, live |-> TRUE]]
    /\ cartItems = [u \in UserIds |-> <<>>]
    /\ addresses = [a \in AddressIds |-> SeedAddress(IF a = 1 THEN "u1" ELSE "u2")]
    /\ orders = <<>>

InitReqs ==
    /\ orderReq = [r \in OrderReqs |-> IdleOrderReq]
    /\ payReq = [r \in PayReqs |-> IdlePayReq]
    /\ cartReq = [r \in CartReqs |-> IdleCartReq]
    /\ addrReq = [r \in AddrReqs |-> IdleAddrReq]
    /\ delReq = [r \in DelReqs |-> IdleDelReq]
    /\ response = NoResponse

\* The seeded admin and the registered customers, each signed in.
InitAccounts ==
    /\ users = [u \in Accounts |-> IF u = AdminId THEN "ADMIN" ELSE "USER"]
    /\ sessions = users

Init == InitDb /\ InitReqs /\ InitAccounts

\* Requests are numbered in their order of arrival: request r starts after
\* every request with a smaller number has started.
Arrived(reqs, r) == \A k \in DOMAIN reqs : k < r => reqs[k].pc # "idle"

----------------------------------------------------------------------------
(* POST /api/cart: add a product to the caller's cart *)

\* The handler returns: its locals are gone, its response is out.
CartDone(r, u, kind, p) ==
    /\ cartReq' = [cartReq EXCEPT ![r] = [IdleCartReq EXCEPT !.pc = "done"]]
    /\ response' = Response("cart", kind, u, p, "none", "none")

\* auth, schema, product.findUnique and the checks on the row read.
CartPOST_FindProduct(r, u, p, q) ==
    /\ cartReq[r].pc = "idle"
    /\ Arrived(cartReq, r)
    /\ IF u = NoUser THEN CartDone(r, u, "Unauthenticated", 0)
       ELSE IF q < 1 \/ q > MaxCartQuantity \/ p < 1 THEN CartDone(r, u, "Validation", 0)
       ELSE IF p \notin Existing \/ ~products[p].isActive THEN CartDone(r, u, "NotFound", p)
       ELSE IF products[p].stock < q THEN CartDone(r, u, "InsufficientStock", p)
       ELSE /\ cartReq' = [cartReq EXCEPT ![r] =
                    [pc |-> "upsert", userId |-> u, productId |-> p, quantity |-> q]]
            /\ UNCHANGED response
    /\ UNCHANGED <<db, orderReq, payReq, addrReq, delReq, users, sessions>>

\* cartItem.upsert and the success response.
CartPOST_Upsert(r) ==
    /\ cartReq[r].pc = "upsert"
    /\ LET u == cartReq[r].userId
           p == cartReq[r].productId
       IN  IF p \in Existing
           THEN /\ cartItems' = [cartItems EXCEPT ![u] = Upsert(@, p, cartReq[r].quantity)]
                /\ CartDone(r, u, "Success", p)
           ELSE /\ UNCHANGED cartItems
                /\ CartDone(r, u, "StorageFailure", p)
    /\ UNCHANGED <<products, addresses, orders, orderReq, payReq, addrReq, delReq, users, sessions>>

----------------------------------------------------------------------------
(* PATCH and DELETE /api/cart/:id: change or remove one cart row. The id in  *)
(* the path names the row of product p in the cart of user w, or no row.    *)

CartItemDone(r, u, kind, p) ==
    /\ cartReq' = [cartReq EXCEPT ![r] = [IdleCartReq EXCEPT !.pc = "done"]]
    /\ response' = Response("cartItem", kind, u, p, "none", "none")

\* cartItem.findFirst({ where: { id, userId } })
CartItemFound(u, w, p) == w = u /\ CartIndex(cartItems[w], p) # 0

\* The rows without the row of product p.
RemoveRow(rows, p) == SelectSeq(rows, LAMBDA row : row.productId # p)

\* PATCH: auth, updateCartSchema, cartItem.findFirst with the product, the
\* stock check.
CartPATCH_FindItem(r, u, w, p, q) ==
    /\ cartReq[r].pc = "idle"
    /\ Arrived(cartReq, r)
    /\ IF u = NoUser THEN CartItemDone(r, u, "Unauthenticated", 0)
       ELSE IF q < 1 \/ q > MaxCartQuantity THEN CartItemDone(r, u, "Validation", 0)
       ELSE IF ~CartItemFound(u, w, p) THEN CartItemDone(r, u, "NotFound", p)
       ELSE IF q > products[p].stock THEN CartItemDone(r, u, "InsufficientStock", p)
       ELSE /\ cartReq' = [cartReq EXCEPT ![r] =
                    [pc |-> "update", userId |-> u, productId |-> p, quantity |-> q]]
            /\ UNCHANGED response
    /\ UNCHANGED <<db, orderReq, payReq, addrReq, delReq, users, sessions>>

\* PATCH: cartItem.update({ where: { id }, data: { quantity } })
CartPATCH_Update(r) ==
    /\ cartReq[r].pc = "update"
    /\ LET u == cartReq[r].userId
           p == cartReq[r].productId
       IN  /\ CartIndex(cartItems[u], p) # 0
           /\ cartItems' = [cartItems EXCEPT
                    ![u][CartIndex(cartItems[u], p)].quantity = cartReq[r].quantity]
           /\ CartItemDone(r, u, "Success", p)
    /\ UNCHANGED <<products, addresses, orders, orderReq, payReq, addrReq, delReq, users, sessions>>

\* DELETE: auth and cartItem.findFirst.
CartDELETE_FindItem(r, u, w, p) ==
    /\ cartReq[r].pc = "idle"
    /\ Arrived(cartReq, r)
    /\ IF u = NoUser THEN CartItemDone(r, u, "Unauthenticated", 0)
       ELSE IF ~CartItemFound(u, w, p) THEN CartItemDone(r, u, "NotFound", p)
       ELSE /\ cartReq' = [cartReq EXCEPT ![r] =
                    [pc |-> "delete", userId |-> u, productId |-> p, quantity |-> 0]]
            /\ UNCHANGED response
    /\ UNCHANGED <<db, orderReq, payReq, addrReq, delReq, users, sessions>>

\* DELETE: cartItem.delete({ where: { id } })
CartDELETE_Delete(r) ==
    /\ cartReq[r].pc = "delete"
    /\ LET u == cartReq[r].userId
           p == cartReq[r].productId
       IN  /\ CartIndex(cartItems[u], p) # 0
           /\ cartItems' = [cartItems EXCEPT ![u] = RemoveRow(@, p)]
           /\ CartItemDone(r, u, "Success", p)
    /\ UNCHANGED <<products, addresses, orders, orderReq, payReq, addrReq, delReq, users, sessions>>

\* A write of a cart request throws (the row it names is gone, the database
\* fails): nothing is written and the catch block answers 500.
CartWriteThrows(r) ==
    /\ cartReq[r].pc \in {"upsert", "update", "delete"}
    /\ IF cartReq[r].pc = "upsert"
       THEN CartDone(r, cartReq[r].userId, "StorageFailure", cartReq[r].productId)
       ELSE CartItemDone(r, cartReq[r].userId, "StorageFailure", cartReq[r].productId)
    /\ UNCHANGED <<db, orderReq, payReq, addrReq, delReq, users, sessions>>

----------------------------------------------------------------------------
(* POST /api/orders: convert the caller's cart into an order *)

\* The handler returns: its locals are gone, its response is out.
OrderDone(r, u, kind, ref, at) ==
    /\ orderReq' = [orderReq EXCEPT ![r] = [IdleOrderReq EXCEPT !.pc = "done"]]
    /\ response' = Response("orders", kind, u, ref, "none", at)

\* The same handler with the cart looked at before the address.
OrderPOST_FindAddress_CartFirst(r, u, a) ==
    /\ orderReq[r].pc = "idle"
    /\ Arrived(orderReq, r)
    /\ IF u = NoUser THEN OrderDone(r, u, "Unauthenticated", 0, "none")
       ELSE IF Len(cartItems[u]) = 0 THEN OrderDone(r, u, "EmptyCart", 0, "none")
       ELSE IF a < 1 THEN OrderDone(r, u, "Validation", a, "none")
       ELSE IF ~AddressFound(a, u) THEN OrderDone(r, u, "InvalidAddress", a, "none")
       ELSE /\ orderReq' = [orderReq EXCEPT ![r] =
                    [IdleOrderReq EXCEPT !.pc = "findCart", !.userId = u, !.address = addresses[a]]]
            /\ UNCHANGED response
    /\ UNCHANGED <<db, payReq, cartReq, addrReq, delReq, users, sessions>>

\* auth, createOrderSchema, address.findFirst and the check on its result. A
\* response about the address names the address id asked for.
OrderPOST_FindAddress(r, u, a) ==
    /\ orderReq[r].pc = "idle"
    /\ Arrived(orderReq, r)
    /\ IF u = NoUser THEN OrderDone(r, u, "Unauthenticated", 0, "none")
       ELSE IF a < 1 THEN OrderDone(r, u, "Validation", a, "none")
       ELSE IF ~AddressFound(a, u) THEN OrderDone(r, u, "InvalidAddress", a, "none")
       ELSE /\ orderReq' = [orderReq EXCEPT ![r] =
                    [IdleOrderReq EXCEPT !.pc = "findCart", !.userId = u, !.address = addresses[a]]]
            /\ UNCHANGED response
    /\ UNCHANGED <<db, payReq, cartReq, addrReq, delReq, users, sessions>>

\* The same step without the check on cartItems.length.
OrderPOST_FindCart_NoEmptyCheck(r) ==
    /\ orderReq[r].pc = "findCart"
    /\ LET u == orderReq[r].userId
           snap == JoinCart(u)
           bad == FirstBadLine(snap)
       IN  IF bad # 0
           THEN OrderDone(r, u, LineError(snap[bad]), snap[bad].productId, "none")
           ELSE /\ orderReq' = [orderReq EXCEPT ![r].pc = "transaction", ![r].cart = snap]
                /\ UNCHANGED response
    /\ UNCHANGED <<db, payReq, cartReq, addrReq, delReq, users, sessions>>

\* cartItem.findMany with the joined products, the empty-cart check, the
\* validation loop and the total: all on the rows this one read returned.
OrderPOST_FindCart(r) ==
    /\ orderReq[r].pc = "findCart"
    /\ LET u == orderReq[r].userId
           snap == JoinCart(u)
           bad == FirstBadLine(snap)
       IN  IF Len(snap) = 0 THEN OrderDone(r, u, "EmptyCart", 0, "none")
           ELSE IF bad # 0
           THEN OrderDone(r, u, LineError(snap[bad]), snap[bad].productId, "none")
           ELSE /\ orderReq' = [orderReq EXCEPT ![r].pc = "transaction", ![r].cart = snap]
                /\ UNCHANGED response
    /\ UNCHANGED <<db, payReq, cartReq, addrReq, delReq, users, sessions>>

\* The same transaction with a failure reported after its commit.
OrderPOST_Transaction_LateThrow(r, random) ==
    /\ orderReq[r].pc = "transaction"
    /\ LET u == orderReq[r].userId
           snap == orderReq[r].cart
           orderNo == generateOrderNo(random)
       IN  /\ \A i \in 1 .. Len(snap) : snap[i].productId \in Existing
           /\ ~OrderNoTaken(orderNo)
           /\ \E total \in StoredTotals(TotalAmount(snap)) :
                orders' = Append(orders, NewOrder(u, snap, orderNo, orderReq[r].address, total))
           /\ products' = DecrementStock(products, snap, Len(snap))
           /\ cartItems' = [cartItems EXCEPT ![u] = <<>>]
           /\ OrderDone(r, u, "StorageFailure", 0, "commit")
    /\ UNCHANGED <<addresses, payReq, cartReq, addrReq, delReq, users, sessions>>

\* prisma.$transaction runs to its end: tx.order.create, the decrement loop
\* and tx.cartItem.deleteMany commit together, and the handler answers with
\* the new order. The decrements are relative updates of the rows as they are
\* at commit, whatever the snapshot said.
OrderPOST_Transaction(r, random) ==
    /\ orderReq[r].pc = "transaction"
    /\ LET u == orderReq[r].userId
           snap == orderReq[r].cart
           orderNo == generateOrderNo(random)
       IN  /\ \A i \in 1 .. Len(snap) : snap[i].productId \in Existing
           /\ ~OrderNoTaken(orderNo)
           /\ \E total \in StoredTotals(TotalAmount(snap)) :
                orders' = Append(orders, NewOrder(u, snap, orderNo, orderReq[r].address, total))
           /\ products' = DecrementStock(products, snap, Len(snap))
           /\ cartItems' = ClearCart(cartItems, u)
           /\ OrderDone(r, u, "Success", Len(orders) + 1, "none")
    /\ UNCHANGED <<addresses, payReq, cartReq, addrReq, delReq, users, sessions>>

\* tx.order.create draws an order number that an order already has: the insert
\* throws, the transaction rolls back and the catch block answers 500.
OrderPOST_OrderNoConflict(r, random) ==
    /\ orderReq[r].pc = "transaction"
    /\ OrderNoTaken(generateOrderNo(random))
    /\ OrderDone(r, orderReq[r].userId, "StorageFailure", 0, "orderNo")
    /\ UNCHANGED <<db, payReq, cartReq, addrReq, delReq, users, sessions>>

\* Where a transaction over a snapshot can throw: at tx.order.create (0), at
\* the k-th decrement (k), at deleteMany (Len + 1), at the commit (Len + 2).
FaultPoints(snap) == 0 .. Len(snap) + 2

FaultName(snap, at) ==
    IF at = 0 THEN "create"
    ELSE IF at <= Len(snap) THEN "decrement"
    ELSE IF at = Len(snap) + 1 THEN "clear"
    ELSE "commit"

\* The same failure without a transaction around the statements: what was
\* written before the failing statement stays.
OrderPOST_TransactionThrows_NoRollback(r, at) ==
    /\ orderReq[r].pc = "transaction"
    /\ at \in FaultPoints(orderReq[r].cart)
    /\ LET u == orderReq[r].userId
           snap == orderReq[r].cart
           n == IF at - 1 < Len(snap) THEN at - 1 ELSE Len(snap)
       IN  /\ orders' = IF at > 0
                        THEN Append(orders, NewOrder(u, snap, generateOrderNo(0), orderReq[r].address,
                                                     RoundToCents(TotalAmount(snap).lo)))
                        ELSE orders
           /\ products' = IF at > 0 THEN DecrementStock(products, snap, n) ELSE products
           /\ cartItems' = IF at = Len(snap) + 2 THEN [cartItems EXCEPT ![u] = <<>>] ELSE cartItems
           /\ OrderDone(r, u, "StorageFailure", 0, FaultName(snap, at))
    /\ UNCHANGED <<addresses, payReq, cartReq, addrReq, delReq, users, sessions>>

\* A statement of the transaction (or its commit) throws: prisma.$transaction
\* rolls back what the statements before it wrote and the catch block
\* answers 500.
OrderPOST_TransactionThrows(r, at) ==
    /\ orderReq[r].pc = "transaction"
    /\ at \in FaultPoints(orderReq[r].cart)
    /\ OrderDone(r, orderReq[r].userId, "StorageFailure", 0, FaultName(orderReq[r].cart, at))
    /\ UNCHANGED <<db, payReq, cartReq, addrReq, delReq, users, sessions>>

----------------------------------------------------------------------------
(* GET /api/orders: the caller's orders *)

\* A listing that leaves the where clause out.
OwnOrders_All(u) == DOMAIN orders

\* order.findMany({ where: { userId } }): the orders the read returns.
OwnOrders(u) == {o \in DOMAIN orders : orders[o].userId = u}

\* The whole handler is one read: auth, order.findMany and the response with
\* the rows read.
OrdersGET(u) ==
    /\ response' = IF u = NoUser
                   THEN Response("ordersList", "Unauthenticated", u, {}, "none", "none")
                   ELSE Response("ordersList", "Success", u, OwnOrders(u), "none", "none")
    /\ UNCHANGED <<db, orderReq, payReq, cartReq, addrReq, delReq, users, sessions>>

\* order.findMany throws: the catch block answers 500.
OrdersGET_Throws(u) ==
    /\ u # NoUser
    /\ response' = Response("ordersList", "StorageFailure", u, {}, "none", "none")
    /\ UNCHANGED <<db, orderReq, payReq, cartReq, addrReq, delReq, users, sessions>>

----------------------------------------------------------------------------
(* POST /api/payment: simulated payment of one order *)

\* The handler returns: its response is out, and the request stays on record
\* with its outcome and, when it paid, the order.
PayDone(r, u, o, kind) ==
    /\ payReq' = [payReq EXCEPT ![r] =
            [IdlePayReq EXCEPT !.pc = "done", !.kind = kind,
                               !.orderId = IF kind = "Success" THEN o ELSE 0]]
    /\ response' = Response("payment", kind, u, o, "none", "none")

\* order.findFirst({ where: { id: orderId, userId, status: 'PENDING' } })
FindPayable_AnyStatus(o, u) ==
    o \in DOMAIN orders /\ orders[o].userId = u

FindPayable(o, u) ==
    o \in DOMAIN orders /\ orders[o].userId = u /\ orders[o].status = "PENDING"

\* auth, the orderId check, order.findFirst and the check on its result.
PayPOST_FindOrder(r, u, o) ==
    /\ payReq[r].pc = "idle"
    /\ Arrived(payReq, r)
    /\ IF u = NoUser THEN PayDone(r, u, o, "Unauthenticated")
       ELSE IF o = 0 THEN PayDone(r, u, o, "MissingOrderId")
       ELSE IF ~FindPayable(o, u) THEN PayDone(r, u, o, "NotPayable")
       ELSE /\ payReq' = [payReq EXCEPT ![r] =
                    [pc |-> "sleep", userId |-> u, orderId |-> o, kind |-> "none"]]
            /\ UNCHANGED response
    /\ UNCHANGED <<db, orderReq, cartReq, addrReq, delReq, users, sessions>>

\* After sleep(1000): order.update({ where: { id }, data: { status: 'PAID' } }).
PayPOST_Update(r) ==
    /\ payReq[r].pc = "sleep"
    /\ LET o == payReq[r].orderId
       IN  /\ orders' = [orders EXCEPT ![o].status = "PAID"]
           /\ PayDone(r, payReq[r].userId, o, "Success")
    /\ UNCHANGED <<products, cartItems, addresses, orderReq, cartReq, addrReq, delReq, users, sessions>>

----------------------------------------------------------------------------
(* PATCH /api/admin/orders/:id: admin status update *)

\* The same handler with a cancellation that gives the units of the order
\* back to the products.
AdminOrderPATCH_Restock(c, o, s) ==
    /\ c = AdminId /\ s \in validStatuses /\ o \in DOMAIN orders
    /\ response' = Response("adminOrders", "Success", c, o, orders[o].status, s)
    /\ orders' = [orders EXCEPT ![o].status = s]
    /\ products' =
            IF s = "CANCELLED"
            THEN [p \in DOMAIN products |->
                    LET lines == {i \in DOMAIN orders[o].items : orders[o].items[i].productId = p}
                    IN  IF lines = {} THEN products[p]
                        ELSE [products[p] EXCEPT
                                !.stock = @ + orders[o].items[CHOOSE i \in lines : TRUE].quantity]]
            ELSE products
    /\ UNCHANGED <<cartItems, addresses, orderReq, payReq, cartReq, addrReq, delReq, users, sessions>>

\* The whole handler is one statement: the role check, the validStatuses check
\* and order.update({ where: { id }, data: { status } }), which throws when no
\* row has the id.
AdminOrderPATCH(c, o, s) ==
    /\ IF c = NoUser \/ Role(c) # "ADMIN"
       THEN /\ response' = Response("adminOrders", "Forbidden", c, o, "none", s)
            /\ UNCHANGED orders
       ELSE IF s \notin validStatuses
       THEN /\ response' = Response("adminOrders", "InvalidStatus", c, o, "none", s)
            /\ UNCHANGED orders
       ELSE IF o \notin DOMAIN orders
       THEN /\ response' = Response("adminOrders", "StorageFailure", c, o, "none", s)
            /\ UNCHANGED orders
       ELSE /\ response' = Response("adminOrders", "Success", c, o, orders[o].status, s)
            /\ orders' = [orders EXCEPT ![o].status = s]
    /\ UNCHANGED <<products, cartItems, addresses, orderReq, payReq, cartReq, addrReq, delReq, users, sessions>>

----------------------------------------------------------------------------
(* Admin product routes *)

\* A field of a request body: <<v>> when the body has it, <<>> when it is undefined.
Undefined == <<>>
Given(S) == {<<v>> : v \in S} \cup {Undefined}

\* The same update with order items that follow the product's price instead
\* of holding a copy of it.
AdminProductPATCH_Repricing(c, p, stock, isActive, price) ==
    /\ c = AdminId /\ p \in Existing
    /\ response' = Response("adminProducts", "Success", c, p, "none", "none")
    /\ products' = [products EXCEPT ![p] =
            [stock    |-> IF stock = Undefined THEN @.stock ELSE stock[1],
             isActive |-> IF isActive = Undefined THEN @.isActive ELSE isActive[1],
             price    |-> IF price = Undefined THEN @.price ELSE price[1],
             live     |-> TRUE]]
    /\ orders' = [o \in DOMAIN orders |->
            [orders[o] EXCEPT !.items = [i \in DOMAIN orders[o].items |->
                IF orders[o].items[i].productId = p /\ price # Undefined
                THEN [orders[o].items[i] EXCEPT !.price = price[1]]
                ELSE orders[o].items[i]]]]
    /\ UNCHANGED <<cartItems, addresses, orderReq, payReq, cartReq, addrReq, delReq, users, sessions>>

\* PATCH /api/admin/products/:id: the fields of the body go to product.update
\* as they are (no schema is applied); the update throws when no row has the id.
AdminProductPATCH(c, p, stock, isActive, price) ==
    /\ IF c = NoUser \/ Role(c) # "ADMIN"
       THEN /\ response' = Response("adminProducts", "Forbidden", c, p, "none", "none")
            /\ UNCHANGED products
       ELSE IF p \notin Existing
       THEN /\ response' = Response("adminProducts", "StorageFailure", c, p, "none", "none")
            /\ UNCHANGED products
       ELSE /\ response' = Response("adminProducts", "Success", c, p, "none", "none")
            /\ products' = [products EXCEPT ![p] =
                    [stock    |-> IF stock = Undefined THEN @.stock ELSE stock[1],
                     isActive |-> IF isActive = Undefined THEN @.isActive ELSE isActive[1],
                     price    |-> IF price = Undefined THEN @.price ELSE price[1],
                     live     |-> TRUE]]
    /\ UNCHANGED <<cartItems, addresses, orders, orderReq, payReq, cartReq, addrReq, delReq, users, sessions>>

\* productSchema: stock is an integer >= 0, price is positive.
ProductSchemaOk(stock, price) == stock >= 0 /\ price > 0

\* POST /api/admin/products: productSchema, then product.create under the next
\* auto-increment id.
AdminProductPOST(c, stock, isActive, price) ==
    /\ Cardinality(DOMAIN products) < MaxProducts
    /\ LET id == Cardinality(DOMAIN products) + 1
       IN  IF c = NoUser \/ Role(c) # "ADMIN"
           THEN /\ response' = Response("adminProducts", "Forbidden", c, 0, "none", "none")
                /\ UNCHANGED products
           ELSE IF ~ProductSchemaOk(stock, price)
           THEN /\ response' = Response("adminProducts", "Validation", c, 0, "none", "none")
                /\ UNCHANGED products
           ELSE /\ response' = Response("adminProducts", "Success", c, id, "none", "none")
                /\ products' = [p \in DOMAIN products \cup {id} |->
                        IF p = id
                        THEN [stock    |-> stock,
                              isActive |-> IF isActive = Undefined THEN TRUE ELSE isActive[1],
                              price    |-> price,
                              live     |-> TRUE]
                        ELSE products[p]]
    /\ UNCHANGED <<cartItems, addresses, orders, orderReq, payReq, cartReq, addrReq, delReq, users, sessions>>

\* orderItem.count({ where: { productId } })
OrderItemCount(p) ==
    Cardinality({<<o, i>> \in (DOMAIN orders) \X (1 .. MaxProducts) :
                    i \in DOMAIN orders[o].items /\ orders[o].items[i].productId = p})

\* Relations that let a referenced product go.
ProductReferenced_Never(p) == FALSE

\* A CartItem or OrderItem row references product p: the foreign key refuses
\* the deletion of the product.
ProductReferenced(p) ==
    \/ OrderItemCount(p) > 0
    \/ \E u \in UserIds : CartIndex(cartItems[u], p) # 0

DelDone(r, c, kind, p) ==
    /\ delReq' = [delReq EXCEPT ![r] = [IdleDelReq EXCEPT !.pc = "done"]]
    /\ response' = Response("adminProducts", kind, c, p, "none", "delete")

\* DELETE /api/admin/products/:id: checkAdmin and orderItem.count.
AdminProductDELETE_Count(r, c, p) ==
    /\ delReq[r].pc = "idle"
    /\ Arrived(delReq, r)
    /\ IF c = NoUser \/ Role(c) # "ADMIN" THEN DelDone(r, c, "Forbidden", p)
       ELSE IF OrderItemCount(p) > 0 THEN DelDone(r, c, "HasOrders", p)
       ELSE /\ delReq' = [delReq EXCEPT ![r] = [pc |-> "clearCarts", productId |-> p]]
            /\ UNCHANGED response
    /\ UNCHANGED <<db, orderReq, payReq, cartReq, addrReq, users, sessions>>

\* cartItem.deleteMany({ where: { productId } })
AdminProductDELETE_ClearCarts(r) ==
    /\ delReq[r].pc = "clearCarts"
    /\ cartItems' = [u \in UserIds |-> RemoveRow(cartItems[u], delReq[r].productId)]
    /\ delReq' = [delReq EXCEPT ![r].pc = "delete"]
    /\ UNCHANGED <<products, addresses, orders, orderReq, payReq, cartReq, addrReq, response, users, sessions>>

\* product.delete({ where: { id } }): throws when no row has the id or a row
\* still references the product.
AdminProductDELETE_Delete(r) ==
    /\ delReq[r].pc = "delete"
    /\ LET p == delReq[r].productId
       IN  IF p \notin Existing \/ ProductReferenced(p)
           THEN /\ DelDone(r, AdminId, "StorageFailure", p)
                /\ UNCHANGED products
           ELSE /\ DelDone(r, AdminId, "Success", p)
                /\ products' = [products EXCEPT ![p].live = FALSE]
    /\ UNCHANGED <<cartItems, addresses, orders, orderReq, payReq, cartReq, addrReq, users, sessions>>

----------------------------------------------------------------------------
(* Sign-in and PATCH /api/admin/users: the admin's role updates *)

\* authorize() reads the User row and the jwt callback writes its role into
\* the token; the token is what every later request of the account presents.
SignIn(u) ==
    /\ sessions' = [sessions EXCEPT ![u] = users[u]]
    /\ UNCHANGED <<db, orderReq, payReq, cartReq, addrReq, delReq, response, users>>

\* The whole handler is one statement: the role check on the session, the
\* checks on the body, the check that the target is not the caller, and
\* user.update({ where: { id: userId }, data: { role } }), which throws when
\* no row has the id.
AdminUserPATCH(c, target, role) ==
    /\ IF c = NoUser \/ Role(c) # "ADMIN"
       THEN /\ response' = Response("adminUsers", "Forbidden", c, target, "none", role)
            /\ UNCHANGED users
       ELSE IF target = "" \/ role \notin Roles
       THEN /\ response' = Response("adminUsers", "Validation", c, target, "none", role)
            /\ UNCHANGED users
       ELSE IF target = c
       THEN /\ response' = Response("adminUsers", "SelfUpdate", c, target, "none", role)
            /\ UNCHANGED users
       ELSE IF target \notin DOMAIN users
       THEN /\ response' = Response("adminUsers", "StorageFailure", c, target, "none", role)
            /\ UNCHANGED users
       ELSE /\ response' = Response("adminUsers", "Success", c, target, users[target], role)
            /\ users' = [users EXCEPT ![target] = role]
    /\ UNCHANGED <<db, orderReq, payReq, cartReq, addrReq, delReq, sessions>>

----------------------------------------------------------------------------
(* /api/user/addresses: create, update and delete the caller's addresses *)

AddrDone(r, u, kind, a) ==
    /\ addrReq' = [addrReq EXCEPT ![r] = [IdleAddrReq EXCEPT !.pc = "done"]]
    /\ response' = Response("addresses", kind, u, a, "none", "none")

\* addressSchema: every text field is filled in.
AddressSchemaOk(detail) == detail # ""

\* result.data.isDefault || false
IsDefaultOf(isDefault) == IF isDefault = Undefined THEN FALSE ELSE isDefault[1]

\* address.updateMany({ where: { userId, isDefault: true, id: { not: id } },
\*                      data: { isDefault: false } }); id 0 excludes no row.
ClearDefaults(rows, u, id) ==
    [a \in DOMAIN rows |->
        IF rows[a].live /\ rows[a].userId = u /\ rows[a].isDefault /\ a # id
        THEN [rows[a] EXCEPT !.isDefault = FALSE]
        ELSE rows[a]]

\* address.create under the next auto-increment id.
InsertAddress(rows, u, detail, isDefault) ==
    [a \in DOMAIN rows \cup {Cardinality(DOMAIN rows) + 1} |->
        IF a \in DOMAIN rows THEN rows[a]
        ELSE [userId |-> u, detail |-> detail, isDefault |-> isDefault, live |-> TRUE]]

\* POST: auth, addressSchema and the first statement: updateMany when the new
\* address is to be the default, address.create otherwise.
AddressPOST_Start(r, u, detail, isDefault) ==
    /\ addrReq[r].pc = "idle"
    /\ Arrived(addrReq, r)
    /\ Cardinality(DOMAIN addresses) < MaxAddresses
    /\ IF u = NoUser
       THEN AddrDone(r, u, "Unauthenticated", 0) /\ UNCHANGED addresses
       ELSE IF ~AddressSchemaOk(detail)
       THEN AddrDone(r, u, "Validation", 0) /\ UNCHANGED addresses
       ELSE IF IsDefaultOf(isDefault)
       THEN /\ addresses' = ClearDefaults(addresses, u, 0)
            /\ addrReq' = [addrReq EXCEPT ![r] =
                    [pc |-> "create", userId |-> u, id |-> 0, detail |-> detail, isDefault |-> TRUE]]
            /\ UNCHANGED response
       ELSE /\ addresses' = InsertAddress(addresses, u, detail, FALSE)
            /\ AddrDone(r, u, "Success", Cardinality(DOMAIN addresses) + 1)
    /\ UNCHANGED <<products, cartItems, orders, orderReq, payReq, cartReq, delReq, users, sessions>>

\* POST: address.create after the updateMany.
AddressPOST_Create(r) ==
    /\ addrReq[r].pc = "create"
    /\ Cardinality(DOMAIN addresses) < MaxAddresses
    /\ addresses' = InsertAddress(addresses, addrReq[r].userId, addrReq[r].detail, addrReq[r].isDefault)
    /\ AddrDone(r, addrReq[r].userId, "Success", Cardinality(DOMAIN addresses) + 1)
    /\ UNCHANGED <<products, cartItems, orders, orderReq, payReq, cartReq, delReq, users, sessions>>

\* PUT: auth, addressSchema, address.findFirst({ where: { id, userId } }).
AddressPUT_Find(r, u, a, detail, isDefault) ==
    /\ addrReq[r].pc = "idle"
    /\ Arrived(addrReq, r)
    /\ IF u = NoUser THEN AddrDone(r, u, "Unauthenticated", 0)
       ELSE IF ~AddressSchemaOk(detail) THEN AddrDone(r, u, "Validation", 0)
       ELSE IF ~AddressFound(a, u) THEN AddrDone(r, u, "NotFound", a)
       ELSE /\ addrReq' = [addrReq EXCEPT ![r] =
                    [pc |-> IF IsDefaultOf(isDefault) THEN "clearOthers" ELSE "update",
                     userId |-> u, id |-> a, detail |-> detail, isDefault |-> IsDefaultOf(isDefault)]]
            /\ UNCHANGED response
    /\ UNCHANGED <<db, orderReq, payReq, cartReq, delReq, users, sessions>>

\* PUT: address.updateMany on the caller's other default addresses.
AddressPUT_ClearOthers(r) ==
    /\ addrReq[r].pc = "clearOthers"
    /\ addresses' = ClearDefaults(addresses, addrReq[r].userId, addrReq[r].id)
    /\ addrReq' = [addrReq EXCEPT ![r].pc = "update"]
    /\ UNCHANGED <<products, cartItems, orders, orderReq, payReq, cartReq, delReq, response, users, sessions>>

\* PUT: address.update({ where: { id }, data }), which throws when the row is gone.
AddressPUT_Update(r) ==
    /\ addrReq[r].pc = "update"
    /\ LET a == addrReq[r].id
       IN  IF a \in LiveAddresses
           THEN /\ addresses' = [addresses EXCEPT ![a].detail = addrReq[r].detail,
                                                  ![a].isDefault = addrReq[r].isDefault]
                /\ AddrDone(r, addrReq[r].userId, "Success", a)
           ELSE /\ UNCHANGED addresses
                /\ AddrDone(r, addrReq[r].userId, "StorageFailure", a)
    /\ UNCHANGED <<products, cartItems, orders, orderReq, payReq, cartReq, delReq, users, sessions>>

\* DELETE: auth and address.findFirst({ where: { id, userId } }).
AddressDELETE_Find(r, u, a) ==
    /\ addrReq[r].pc = "idle"
    /\ Arrived(addrReq, r)
    /\ IF u = NoUser THEN AddrDone(r, u, "Unauthenticated", 0)
       ELSE IF ~AddressFound(a, u) THEN AddrDone(r, u, "NotFound", a)
       ELSE /\ addrReq' = [addrReq EXCEPT ![r] = [IdleAddrReq EXCEPT !.pc = "delete", !.userId = u, !.id = a]]
            /\ UNCHANGED response
    /\ UNCHANGED <<db, orderReq, payReq, cartReq, delReq, users, sessions>>

\* DELETE: address.delete({ where: { id } }), which throws when the row is gone.
AddressDELETE_Delete(r) ==
    /\ addrReq[r].pc = "delete"
    /\ LET a == addrReq[r].id
       IN  IF a \in LiveAddresses
           THEN /\ addresses' = [addresses EXCEPT ![a].live = FALSE]
                /\ AddrDone(r, addrReq[r].userId, "Success", a)
           ELSE /\ UNCHANGED addresses
                /\ AddrDone(r, addrReq[r].userId, "StorageFailure", a)
    /\ UNCHANGED <<products, cartItems, orders, orderReq, payReq, cartReq, delReq, users, sessions>>

----------------------------------------------------------------------------
(* Specifications *)

\* Add-to-cart requests of the callers in U, for products in P and quantities in Q.
CartNextWith(U, P, Q) ==
    \/ \E r \in CartReqs, u \in U, p \in P, q \in Q : CartPOST_FindProduct(r, u, p, q)
    \/ \E r \in CartReqs : CartPOST_Upsert(r)
    \/ \E r \in CartReqs : CartWriteThrows(r)

\* Cart and create-order requests of the callers in U, with address ids from A.
CartNextFor(U) == CartNextWith(U, ProductIds, QtyInputs)

\* Requests on single cart rows, of the callers in U, for the rows of the
\* products in P in the carts of the users in W, with quantities in Q.
CartItemNextWith(U, W, P, Q) ==
    \/ \E r \in CartReqs, u \in U, w \in W, p \in P, q \in Q : CartPATCH_FindItem(r, u, w, p, q)
    \/ \E r \in CartReqs : CartPATCH_Update(r)
    \/ \E r \in CartReqs, u \in U, w \in W, p \in P : CartDELETE_FindItem(r, u, w, p)
    \/ \E r \in CartReqs : CartDELETE_Delete(r)

CartItemNext == CartItemNextWith(UserIds \cup {NoUser}, UserIds, ProductIds, QtyInputs)

\* Product deletions of the callers in C, for the products in P.
DeleteNextWith(C, P) ==
    \/ \E r \in DelReqs, c \in C, p \in P : AdminProductDELETE_Count(r, c, p)
    \/ \E r \in DelReqs : AdminProductDELETE_ClearCarts(r)
    \/ \E r \in DelReqs : AdminProductDELETE_Delete(r)

DeleteNext == DeleteNextWith(Callers, ProductIds)

\* Address requests of the callers in U, on the ids in A, with the form
\* contents in D and the isDefault flags in B.
AddressCreateNext(U, D, B) ==
    \/ \E r \in AddrReqs, u \in U, detail \in D, isDefault \in B :
            AddressPOST_Start(r, u, detail, isDefault)
    \/ \E r \in AddrReqs : AddressPOST_Create(r)

AddressUpdateNext(U, A, D, B) ==
    \/ \E r \in AddrReqs, u \in U, a \in A, detail \in D, isDefault \in B :
            AddressPUT_Find(r, u, a, detail, isDefault)
    \/ \E r \in AddrReqs : AddressPUT_ClearOthers(r)
    \/ \E r \in AddrReqs : AddressPUT_Update(r)

AddressDeleteNext(U, A) ==
    \/ \E r \in AddrReqs, u \in U, a \in A : AddressDELETE_Find(r, u, a)
    \/ \E r \in AddrReqs : AddressDELETE_Delete(r)

AddressNext ==
    \/ AddressCreateNext(UserIds \cup {NoUser}, DetailInputs \cup {""}, Given(BOOLEAN))
    \/ AddressUpdateNext(UserIds \cup {NoUser}, AddressInputs, DetailInputs \cup {""}, Given(BOOLEAN))
    \/ AddressDeleteNext(UserIds \cup {NoUser}, AddressInputs)

OrderNextFor(U, A) ==
    \/ \E r \in OrderReqs, u \in U, a \in A : OrderPOST_FindAddress(r, u, a)
    \/ \E r \in OrderReqs : OrderPOST_FindCart(r)
    \/ \E r \in OrderReqs, random \in Suffixes : OrderPOST_Transaction(r, random)
    \/ \E r \in OrderReqs, random \in Suffixes : OrderPOST_OrderNoConflict(r, random)
    \/ \E r \in OrderReqs, at \in 0 .. MaxProducts + 2 : OrderPOST_TransactionThrows(r, at)

CartNext == CartNextFor(UserIds \cup {NoUser})
OrderNext == OrderNextFor(UserIds \cup {NoUser}, AddressInputs)

\* Order listings of the callers in U.
ListNextFor(U) ==
    \/ \E u \in U : OrdersGET(u)
    \/ \E u \in U : OrdersGET_Throws(u)

ListNext == ListNextFor(UserIds \cup {NoUser})

\* Sign-ins and role updates.
AccountsNext ==
    \/ \E u \in Accounts : SignIn(u)
    \/ \E c \in Callers, target \in TargetInputs, role \in RoleInputs : AdminUserPATCH(c, target, role)

\* Payment requests of the callers in U for the order ids in O.
PayNextWith(U, O) ==
    \/ \E r \in PayReqs, u \in U, o \in O : PayPOST_FindOrder(r, u, o)
    \/ \E r \in PayReqs : PayPOST_Update(r)

PayNext == PayNextWith(UserIds \cup {NoUser}, OrderIdInputs)

\* Admin status updates of the callers in C, of the orders in O to the statuses in S.
StatusNextWith(C, O, S) ==
    \E c \in C, o \in O, s \in S : AdminOrderPATCH(c, o, s)

StatusNextFor(C) == StatusNextWith(C, OrderIdInputs \ {0}, StatusInputs)

StatusNext == StatusNextFor(Callers)

\* Admin product requests of the callers in C, with body fields from the sets
\* S (stock), B (isActive) and P (price).
ProductPatchNext(C, S, B, P) ==
    \E c \in C, p \in ProductIds, stock \in Given(S), isActive \in Given(B), price \in Given(P) :
        AdminProductPATCH(c, p, stock, isActive, price)

ProductCreateNext(C, S, B, P) ==
    \E c \in C, stock \in S, isActive \in Given(B), price \in P :
        AdminProductPOST(c, stock, isActive, price)

ProductNext ==
    \/ ProductPatchNext(Callers, StockInputs, BOOLEAN, PriceInputs)
    \/ ProductCreateNext(Callers, StockInputs, BOOLEAN, PriceInputs)

Next ==
    \/ CartNext \/ CartItemNext \/ OrderNext \/ ListNext \/ PayNext \/ StatusNext
    \/ ProductNext \/ DeleteNext \/ AddressNext \/ AccountsNext

Spec == Init /\ [][Next]_vars

\* One customer's checkout next to the admin's stock edits (a negative stock,
\* a restock) and new products.
StockEdits == {-1, InitStock}
CatalogNext ==
    \/ CartNextFor({"u1"})
    \/ OrderNextFor({"u1"}, {1})
    \/ ProductPatchNext({AdminId}, StockEdits, {}, {})
    \/ ProductCreateNext({AdminId}, StockEdits, {}, PriceInputs)
SpecCatalog == Init /\ [][CatalogNext]_vars

\* Checkout while the admin takes products off the shelf and puts them back.
ShelfNext == CartNext \/ OrderNext \/ ProductPatchNext({AdminId}, {}, BOOLEAN, {})
SpecShelf == Init /\ [][ShelfNext]_vars

\* One customer's checkout next to the admin's price edits.
PricingNext ==
    \/ CartNextFor({"u1"})
    \/ OrderNextFor({"u1"}, {1})
    \/ ProductPatchNext({AdminId}, {}, {}, PriceInputs)
SpecPricing == Init /\ [][PricingNext]_vars

\* One customer's cart and checkout of a product seeded with a large stock,
\* with the smallest and the largest quantity a cart request may carry.
InitBulk ==
    /\ products = [p \in SeededProducts |->
            [stock |-> BulkStock, isActive |-> TRUE, price |-> 10, live |-> TRUE]]
    /\ cartItems = [u \in UserIds |-> <<>>]
    /\ addresses = [a \in AddressIds |-> SeedAddress(IF a = 1 THEN "u1" ELSE "u2")]
    /\ orders = <<>>
    /\ InitReqs
    /\ InitAccounts

BulkNext ==
    \/ CartNextWith({"u1"}, {1}, {1, MaxCartQuantity})
    \/ CartItemNextWith({"u1"}, {"u1"}, {1}, {1, MaxCartQuantity})
    \/ OrderNextFor({"u1"}, {1})
SpecBulk == InitBulk /\ [][BulkNext]_vars

\* One customer's address requests.
AddressBookNext ==
    \/ AddressCreateNext({"u1"}, {"office"}, Given({TRUE}))
    \/ AddressUpdateNext({"u1"}, {1, 3}, {"office"}, Given({TRUE}))
    \/ AddressDeleteNext({"u1"}, {1, 3})
SpecAddressBook == Init /\ [][AddressBookNext]_vars

\* Checkout alone: carts and create-order requests over the seeded catalogue.
CheckoutNext == CartNext \/ OrderNext
SpecCheckout == Init /\ [][CheckoutNext]_vars

\* Checkout of two customers, and their looks at their orders.
ListingNext ==
    \/ CartNextWith(UserIds, {1}, {1})
    \/ OrderNextFor(UserIds, {1, 2})
    \/ ListNext
SpecListing == Init /\ [][ListingNext]_vars

\* Checkout, payment and the admin's status updates, with no edit of a product.
ConservationNext ==
    \/ CartNextWith({"u1"}, SeededProducts, {1, 2})
    \/ OrderNextFor({"u1"}, {1})
    \/ PayNextWith({"u1"}, {2})
    \/ StatusNextWith({AdminId}, {1}, {"CANCELLED"})
SpecConservation == Init /\ [][ConservationNext]_vars

\* The accounts alone: sign-ins and role updates.
SpecAccounts == Init /\ [][AccountsNext]_vars

\* The shop after each customer put one unit of product 1 in the cart and
\* checked out with their address (a state SpecCheckout reaches): two PENDING
\* orders, order 1 of u1 from the day before and order 2 of u2 from today.
PendingOrderOf(u, orderNo) ==
    [userId |-> u, orderNo |-> orderNo, status |-> "PENDING", totalAmount |-> 10,
     address |-> AddressSnapshot(SeedAddress(u)),
     items |-> <<[productId |-> 1, quantity |-> 1, price |-> 10]>>]

InitPayment ==
    /\ products = [p \in SeededProducts |->
            [stock |-> IF p = 1 THEN InitStock - 2 ELSE InitStock, isActive |-> TRUE, price |-> 10,
             live |-> TRUE]]
    /\ cartItems = [u \in UserIds |-> <<>>]
    /\ addresses = [a \in AddressIds |-> SeedAddress(IF a = 1 THEN "u1" ELSE "u2")]
    /\ orders = <<PendingOrderOf("u1", <<"ORD", "yesterday", 0>>),
                   PendingOrderOf("u2", generateOrderNo(0))>>
    /\ InitReqs
    /\ InitAccounts

\* Payment requests next to the admin's status updates.
PaymentNext == PayNext \/ StatusNextFor({AdminId, "u1"})
SpecPayment == InitPayment /\ [][PaymentNext]_vars

\* Payment requests alone.
SpecPayOnly == InitPayment /\ [][PayNext]_vars

\* Two orders on record, and everything that can follow: one customer's cart,
\* checkout, payment and address requests, the admin's status, price and
\* delete requests.
LedgerRequests ==
    \/ CartNextWith({"u1"}, {2}, {1})
    \/ CartItemNextWith({"u1"}, {"u1"}, {2}, {2})
    \/ OrderNextFor({"u1"}, {1})
    \/ PayNextWith({"u1"}, {1})
    \/ StatusNextWith({AdminId}, {1}, {"SHIPPED"})
    \/ ProductPatchNext({AdminId}, {}, {}, {25})
    \/ DeleteNextWith({AdminId}, {1, 2})
    \/ AddressUpdateNext({"u1"}, {1}, {"office"}, {<<TRUE>>})
    \/ AddressDeleteNext({"u1"}, {1})

\* At most one create-order, one payment and one address request per behaviour.
OneOfEach ==
    /\ \A r \in OrderReqs \ {1} : orderReq[r].pc = "idle"
    /\ \A r \in PayReqs \ {1} : payReq[r].pc = "idle"
    /\ \A r \in AddrReqs \ {1} : addrReq[r].pc = "idle"

LedgerNext == LedgerRequests /\ OneOfEach'
SpecLedger == InitPayment /\ [][LedgerNext]_vars

----------------------------------------------------------------------------
(* Properties *)

\* The tables create-order writes.
OrderTables == <<orders, products, cartItems>>

\* Request r takes this step.
OrderStep(r) == orderReq'[r] # orderReq[r]
PayStep(r) == payReq'[r] # payReq[r]

\* Units of product p in the items of all orders.
RECURSIVE SoldInItems(_, _, _)
SoldInItems(items, n, p) ==
    IF n = 0 THEN 0
    ELSE SoldInItems(items, n - 1, p) + (IF items[n].productId = p THEN items[n].quantity ELSE 0)

RECURSIVE SoldInOrders(_, _)
SoldInOrders(n, p) ==
    IF n = 0 THEN 0
    ELSE SoldInOrders(n - 1, p) + SoldInItems(orders[n].items, Len(orders[n].items), p)

SoldQty(p) == SoldInOrders(Len(orders), p)

\* C1: a create-order request whose transaction fails (at the order insert, at
\* a decrement, at the cart clearing or at the commit) leaves the Order,
\* OrderItem, Product and CartItem tables as they are.
C1_Atomicity ==
    [][\A r \in OrderReqs :
        (orderReq[r].pc = "transaction" /\ orderReq'[r].pc = "done" /\ response'.kind # "Success")
            => UNCHANGED OrderTables]_vars

\* A transaction over a two-line cart failed after both decrements, at the
\* cart clearing.
C1_Witness ==
    /\ response.route = "orders"
    /\ response.kind = "StorageFailure"
    /\ response.detail = "clear"
    /\ Len(cartItems[response.userId]) = 2

\* Every order is of another user: the create-order requests that succeeded
\* came from different users.
DistinctBuyers ==
    \A i, j \in DOMAIN orders : i # j => orders[i].userId # orders[j].userId

\* C2: no oversell. With create-order requests of different users and no admin
\* edit, the units sold of a product never exceed its initial stock N (with
\* equal quantities Q: at most N div Q requests succeed) and its stock is
\* never negative.
C2_NoOversell ==
    DistinctBuyers => \A p \in Existing : SoldQty(p) <= InitStock /\ products[p].stock >= 0

\* C3: every Product.stock is >= 0 in every reachable state, under create-order,
\* add-to-cart and admin product create/update requests.
C3_StockNonNegative ==
    \A p \in Existing : products[p].stock >= 0

\* C4: the decrement is safe on its own. A create-order request that reaches
\* its transaction when some line's quantity exceeds the product's stock (the
\* stock changed after the validation read) does not commit: it fails and
\* writes nothing.
C4_DecrementSafe ==
    [][\A r \in OrderReqs :
        ( /\ orderReq[r].pc = "transaction"
          /\ OrderStep(r)
          /\ \E i \in 1 .. Len(orderReq[r].cart) :
                /\ orderReq[r].cart[i].productId \in Existing
                /\ products[orderReq[r].cart[i].productId].stock < orderReq[r].cart[i].quantity )
            => (response'.kind # "Success" /\ UNCHANGED OrderTables)]_vars

\* The edges of the order status state machine.
AllowedTransitions ==
    {<<"PENDING", "PAID">>, <<"PENDING", "CANCELLED">>, <<"PAID", "SHIPPED">>,
     <<"SHIPPED", "COMPLETED">>}

\* An admin status update of order o with a status of the enum takes this step.
AdminStatusStep(o) ==
    /\ response'.route = "adminOrders"
    /\ response'.userId = AdminId
    /\ response'.ref = o
    /\ response'.detail \in validStatuses
    /\ payReq' = payReq

\* C5: an admin status update of an order to another status succeeds, and
\* sets the status, if and only if (current status, target status) is an edge
\* of the state machine; otherwise it is rejected and the status stays.
C5_TransitionTable ==
    [][\A o \in DOMAIN orders :
        (AdminStatusStep(o) /\ response'.detail # orders[o].status) =>
            IF <<orders[o].status, response'.detail>> \in AllowedTransitions
            THEN response'.kind = "Success" /\ orders'[o].status = response'.detail
            ELSE response'.kind # "Success" /\ orders'[o].status = orders[o].status]_vars

\* C6: COMPLETED and CANCELLED are terminal: an order in one of them keeps its
\* status in every step.
C6_TerminalStatus ==
    [][\A o \in DOMAIN orders :
        orders[o].status \in {"COMPLETED", "CANCELLED"} => orders'[o].status = orders[o].status]_vars

\* C7: idempotent payment. Of the payment requests for one order, at most one
\* reports success (payments alone, no admin update in between).
C7_IdempotentPayment ==
    \A r1, r2 \in PayReqs :
        ( /\ r1 # r2
          /\ payReq[r1].pc = "done" /\ payReq[r1].kind = "Success"
          /\ payReq[r2].pc = "done" /\ payReq[r2].kind = "Success" )
            => payReq[r1].orderId # payReq[r2].orderId

\* C8: every status write of the payment simulator is a PENDING -> PAID
\* transition of an order of the requesting user: the order it writes exists,
\* belongs to the caller and is PENDING at the moment of the write.
C8_PaymentWritesPendingOnly ==
    [][\A r \in PayReqs :
        (payReq[r].pc = "sleep" /\ PayStep(r)) =>
            /\ payReq[r].orderId \in DOMAIN orders
            /\ orders[payReq[r].orderId].userId = payReq[r].userId
            /\ orders[payReq[r].orderId].status = "PENDING"
            /\ orders'[payReq[r].orderId].status = "PAID"]_vars

\* What a payment request must find to go on.
Payable(o, u) ==
    o \in DOMAIN orders /\ orders[o].userId = u /\ orders[o].status = "PENDING"

\* The order id and the caller of the request r that takes its first step: in
\* its locals when it goes on, in its response when it returns.
PayInput(r) ==
    IF payReq'[r].pc = "sleep"
    THEN [orderId |-> payReq'[r].orderId, userId |-> payReq'[r].userId]
    ELSE [orderId |-> response'.ref, userId |-> response'.userId]

PayFailures == {"Unauthenticated", "MissingOrderId", "NotPayable"}

\* C9: a payment request for an order that is missing, belongs to another user
\* or is not PENDING ends at its first step with a failure, and no order
\* changes.
C9_RejectedPayment ==
    [][\A r \in PayReqs :
        ( /\ payReq[r].pc = "idle"
          /\ PayStep(r)
          /\ ~Payable(PayInput(r).orderId, PayInput(r).userId) )
            => ( /\ payReq'[r].pc = "done"
                 /\ payReq'[r].kind \in PayFailures
                 /\ response'.kind = payReq'[r].kind
                 /\ orders' = orders )]_vars

\* The owner's payment request for an order that is already PAID was rejected.
C9_Witness ==
    /\ response.route = "payment"
    /\ response.kind = "NotPayable"
    /\ response.ref \in DOMAIN orders
    /\ orders[response.ref].userId = response.userId
    /\ orders[response.ref].status = "PAID"

PreconditionFailures ==
    {"Unauthenticated", "Validation", "InvalidAddress", "EmptyCart", "InsufficientStock", "Inactive"}

\* The caller's cart as it is now passes the checks of create-order.
CartOrderable(u) ==
    /\ Len(cartItems[u]) > 0
    /\ \A i \in 1 .. Len(cartItems[u]) :
            /\ products[cartItems[u][i].productId].isActive
            /\ products[cartItems[u][i].productId].stock >= cartItems[u][i].quantity

\* C10: a create-order request goes on to its transaction only when every
\* precondition held where it was checked (caller authenticated, address found
\* and owned by the caller, cart not empty, every line's product active with
\* stock >= quantity); otherwise it ends with a failure. No step before the
\* transaction changes an order, a product or a cart.
C10_PreconditionFailure ==
    [][\A r \in OrderReqs :
        /\ (orderReq[r].pc = "idle" /\ orderReq'[r].pc = "findCart")
                => ( /\ orderReq'[r].userId \in UserIds
                     /\ orderReq'[r].address \in {addresses[a] : a \in LiveAddresses}
                     /\ orderReq'[r].address.userId = orderReq'[r].userId )
        /\ (orderReq[r].pc = "findCart" /\ orderReq'[r].pc = "transaction")
                => CartOrderable(orderReq[r].userId)
        /\ (orderReq[r].pc \in {"idle", "findCart"} /\ OrderStep(r))
                => ( /\ UNCHANGED OrderTables
                     /\ orderReq'[r].pc \in {"findCart", "transaction", "done"}
                     /\ orderReq'[r].pc = "done"
                            => (response'.route = "orders" /\ response'.kind \in PreconditionFailures) )]_vars

\* A create-order request failed on a product taken off the shelf, and the
\* caller's cart still holds the line.
C10_Witness ==
    /\ response.route = "orders"
    /\ response.kind = "Inactive"
    /\ \E i \in 1 .. Len(cartItems[response.userId]) :
            /\ cartItems[response.userId][i].productId = response.ref
            /\ ~products[response.ref].isActive

\* C11: a create-order request of user U that succeeds adds exactly one order,
\* owned by U and PENDING, leaves the orders before it as they are, empties
\* U's cart, and lowers the stock of the product of each snapshot line by that
\* line's quantity.
C11_SuccessPostState ==
    [][\A r \in OrderReqs :
        ( /\ orderReq[r].pc = "transaction"
          /\ OrderStep(r)
          /\ response'.kind = "Success" )
            => LET u == orderReq[r].userId
                   snap == orderReq[r].cart
               IN  /\ Len(orders') = Len(orders) + 1
                   /\ SubSeq(orders', 1, Len(orders)) = orders
                   /\ orders'[Len(orders')].userId = u
                   /\ orders'[Len(orders')].status = "PENDING"
                   /\ response'.ref = Len(orders')
                   /\ cartItems'[u] = <<>>
                   /\ \A i \in 1 .. Len(snap) :
                        products'[snap[i].productId].stock
                            = products[snap[i].productId].stock - snap[i].quantity]_vars

\* A request with a two-line cart (2 units of one product, 1 of the other)
\* succeeded: its order is PENDING, the cart is empty, the stocks are lower.
C11_Witness ==
    /\ response.route = "orders"
    /\ response.kind = "Success"
    /\ Len(orders[response.ref].items) = 2
    /\ orders[response.ref].status = "PENDING"
    /\ \E i \in 1 .. 2 : orders[response.ref].items[i].quantity = 2
    /\ cartItems[response.userId] = <<>>

\* The sum of price x quantity over the lines of a snapshot, in cents.
RECURSIVE ExactCents(_, _)
ExactCents(snap, n) ==
    IF n = 0 THEN 0
    ELSE ExactCents(snap, n - 1) + snap[n].product.price * snap[n].quantity

\* C12: the total of the order a create-order request inserts is the exact sum,
\* in cents, of price x quantity over the lines of the snapshot the request
\* read, and no later step (a price edit among them) changes the total of an
\* order.
C12_TotalExact ==
    [][ /\ \A r \in OrderReqs :
            ( /\ orderReq[r].pc = "transaction"
              /\ OrderStep(r)
              /\ response'.kind = "Success" )
                => orders'[Len(orders')].totalAmount
                        = ExactCents(orderReq[r].cart, Len(orderReq[r].cart))
        /\ \A o \in DOMAIN orders : orders'[o].totalAmount = orders[o].totalAmount ]_vars

\* An order of two lines, one of them 2 units at 0.10, holds the total 0.45
\* after the price of one of its products was changed.
C12_Witness ==
    \E o \in DOMAIN orders :
        /\ Len(orders[o].items) = 2
        /\ \E i \in 1 .. 2 : orders[o].items[i].price = 10 /\ orders[o].items[i].quantity = 2
        /\ orders[o].totalAmount = 45
        /\ \E i \in 1 .. 2 :
                products[orders[o].items[i].productId].price # orders[o].items[i].price

\* Everything of an order but its status.
Frozen(order) == [order EXCEPT !.status = "any"]

\* C13: an order on record keeps its owner, order number, total, address
\* snapshot and items in every step; only its status can change.
C13_OrderImmutable ==
    [][\A o \in DOMAIN orders :
        o \in DOMAIN orders' /\ Frozen(orders'[o]) = Frozen(orders[o])]_vars

\* Order 1 was shipped, its address was edited or deleted and its product
\* repriced; the order still holds the address and the price of its creation.
C13_Witness ==
    /\ orders[1].status = "SHIPPED"
    /\ orders[1].address.detail = "home"
    /\ (addresses[1].detail = "office" \/ ~addresses[1].live)
    /\ orders[1].items[1].price = 10
    /\ products[orders[1].items[1].productId].price = 25

AddressFailures == {"Validation", "InvalidAddress"}
LineFailures == {"InsufficientStock", "Inactive"}

\* C14: the preconditions of create-order are checked in the order
\* authenticated, address, cart not empty, lines. A caller without a session
\* gets the sign-in error; an authenticated caller with an address id that is
\* malformed, missing or of another user gets the address error whatever the
\* cart holds; the empty-cart error is given only after the address was found,
\* and a line error only for a cart that is not empty.
C14_CheckOrder ==
    [][\A r \in OrderReqs :
        /\ (orderReq[r].pc = "idle" /\ orderReq'[r].pc = "done") =>
                /\ response'.kind \in {"Unauthenticated"} \cup AddressFailures
                /\ response'.kind = "Unauthenticated" <=> response'.userId = NoUser
                /\ response'.kind \in AddressFailures => ~AddressFound(response'.ref, response'.userId)
        /\ (orderReq[r].pc = "idle" /\ orderReq'[r].pc = "findCart") =>
                /\ orderReq'[r].userId # NoUser
                /\ \E a \in LiveAddresses :
                        AddressFound(a, orderReq'[r].userId) /\ orderReq'[r].address = addresses[a]
        /\ (orderReq[r].pc = "findCart" /\ orderReq'[r].pc = "done") =>
                /\ response'.kind \in {"EmptyCart"} \cup LineFailures
                /\ response'.kind = "EmptyCart" <=> cartItems[orderReq[r].userId] = <<>>
        /\ (orderReq[r].pc = "findCart" /\ orderReq'[r].pc = "transaction") =>
                cartItems[orderReq[r].userId] # <<>>]_vars

\* An authenticated caller with an empty cart named the address of another
\* user and got the address error.
C14_Witness ==
    /\ response.route = "orders"
    /\ response.kind = "InvalidAddress"
    /\ response.ref \in LiveAddresses
    /\ cartItems[response.userId] = <<>>

\* Line i of user u's cart, as the tables are now, cannot be fulfilled.
Unfulfillable(u, i) ==
    \/ ~products[cartItems[u][i].productId].isActive
    \/ products[cartItems[u][i].productId].stock < cartItems[u][i].quantity

\* C15: when the cart a create-order request reads has lines that cannot be
\* fulfilled, the request fails and its error names the product of the first
\* such line, in the order of the rows read.
C15_FirstBadLineNamed ==
    [][\A r \in OrderReqs :
        LET u == orderReq[r].userId
        IN  ( /\ orderReq[r].pc = "findCart"
              /\ OrderStep(r)
              /\ \E i \in 1 .. Len(cartItems[u]) : Unfulfillable(u, i) )
                => /\ orderReq'[r].pc = "done"
                   /\ response'.kind \in LineFailures
                   /\ \E i \in 1 .. Len(cartItems[u]) :
                        /\ Unfulfillable(u, i)
                        /\ \A j \in 1 .. i - 1 : ~Unfulfillable(u, j)
                        /\ response'.ref = cartItems[u][i].productId]_vars

\* A request failed on a cart of two lines that both cannot be fulfilled, and
\* its error names the product of the first line.
C15_Witness ==
    /\ response.route = "orders"
    /\ response.kind \in LineFailures
    /\ Len(cartItems[response.userId]) = 2
    /\ Unfulfillable(response.userId, 1)
    /\ Unfulfillable(response.userId, 2)
    /\ response.ref = cartItems[response.userId][1].productId

\* C16: every order has at least one item, and a create-order request that
\* reads an empty cart ends with the empty-cart error.
C16_NoEmptyOrder ==
    [][ /\ \A o \in DOMAIN orders' : Len(orders'[o].items) >= 1
        /\ \A r \in OrderReqs :
            ( /\ orderReq[r].pc = "findCart"
              /\ OrderStep(r)
              /\ cartItems[orderReq[r].userId] = <<>> )
                => /\ orderReq'[r].pc = "done"
                   /\ response'.kind = "EmptyCart"
                   /\ orders' = orders ]_vars

\* A user who has an order submitted again with the cart now empty, and got
\* the empty-cart error; no order was added.
C16_Witness ==
    /\ response.route = "orders"
    /\ response.kind = "EmptyCart"
    /\ Len(orders) = 1
    /\ orders[1].userId = response.userId
    /\ \A r \in OrderReqs : orderReq[r].pc = "done"

Defaults(u) == {a \in LiveAddresses : addresses[a].userId = u /\ addresses[a].isDefault}

RowsOf(rows, u, p) == {i \in 1 .. Len(rows[u]) : rows[u][i].productId = p}

\* C19: a cart has at most one row per product, and an add-to-cart request
\* for a product the cart already holds adds its quantity to that row.
C19_UniqueCartItem ==
    [][ /\ \A u \in UserIds, p \in ProductIds : Cardinality(RowsOf(cartItems', u, p)) <= 1
        /\ \A r \in CartReqs :
            LET u == cartReq[r].userId
                p == cartReq[r].productId
            IN  ( /\ cartReq[r].pc = "upsert"
                  /\ cartReq'[r].pc = "done"
                  /\ response'.kind = "Success"
                  /\ RowsOf(cartItems, u, p) # {} )
                    => /\ Len(cartItems'[u]) = Len(cartItems[u])
                       /\ \A i \in RowsOf(cartItems, u, p) :
                            /\ cartItems'[u][i].productId = p
                            /\ cartItems'[u][i].quantity
                                    = cartItems[u][i].quantity + cartReq[r].quantity ]_vars

\* Two add-to-cart requests for one product, of 1 and of 2 units, left one
\* row of 3 units.
C19_Witness ==
    /\ response.route = "cart"
    /\ response.kind = "Success"
    /\ \A r \in CartReqs : cartReq[r].pc = "done"
    /\ Len(cartItems[response.userId]) = 1
    /\ cartItems[response.userId][1].quantity = 3

\* C20: no two orders on record have the same order number.
C20_UniqueOrderNo ==
    \A o1, o2 \in DOMAIN orders : o1 # o2 => orders[o1].orderNo # orders[o2].orderNo

\* Two create-order requests drew the same order number on one day: one order
\* is on record and the other request failed at the insert.
C20_Witness ==
    /\ response.route = "orders"
    /\ response.kind = "StorageFailure"
    /\ response.detail = "orderNo"
    /\ Len(orders) = 1
    /\ \A r \in OrderReqs : orderReq[r].pc = "done"

\* C21: no change of an order's status changes a product's stock: a step of
\* the payment simulator or of the admin status update (a cancellation of a
\* PENDING order among them) leaves the Product table as it is, so the units
\* an order took are never given back.
C21_StatusKeepsStock ==
    [][ ( \/ response'.route \in {"payment", "adminOrders"}
          \/ \E r \in PayReqs : PayStep(r)
          \/ \E o \in DOMAIN orders : o \in DOMAIN orders' /\ orders'[o].status # orders[o].status )
            => products' = products ]_vars

\* The admin cancelled the PENDING order 1 and the other order was paid; the
\* product of both still has the stock the two orders left.
C21_Witness ==
    /\ response.route = "adminOrders"
    /\ response.kind = "Success"
    /\ response.from = "PENDING"
    /\ orders[1].status = "CANCELLED"
    /\ orders[2].status = "PAID"
    /\ products[1].stock = InitStock - 2

\* C22: a listing of orders returns exactly the orders the requesting user
\* owns, as they are at the read, never an order of another user, and changes
\* no order, product, cart or address.
C22_ListOwnOrders ==
    [][ (response'.route = "ordersList" /\ response' # response) =>
            /\ UNCHANGED db
            /\ response'.kind = "Success" =>
                    /\ response'.userId \in UserIds
                    /\ \A o \in DOMAIN orders :
                            o \in response'.ref <=> orders[o].userId = response'.userId
                    /\ response'.ref \subseteq DOMAIN orders
            /\ response'.userId = NoUser => response'.kind = "Unauthenticated" ]_vars

\* Two users have an order each, and a user's listing returned one order: theirs.
C22_Witness ==
    /\ response.route = "ordersList"
    /\ response.kind = "Success"
    /\ Len(orders) = 2
    /\ orders[1].userId # orders[2].userId
    /\ Cardinality(response.ref) = 1
    /\ \A o \in response.ref : orders[o].userId = response.userId

\* C23: the items of the order a create-order request inserts are the lines
\* of the cart snapshot the request read, one item per line in the order of
\* the lines: the line's product id, the line's quantity and the price the
\* product had in the snapshot, not a price an admin wrote after the read.
C23_ItemsAreSnapshot ==
    [][\A r \in OrderReqs :
        ( /\ orderReq[r].pc = "transaction"
          /\ OrderStep(r)
          /\ response'.kind = "Success" )
            => LET snap == orderReq[r].cart
                   items == orders'[Len(orders')].items
               IN  /\ Len(items) = Len(snap)
                   /\ \A i \in 1 .. Len(snap) :
                        /\ items[i].productId = snap[i].productId
                        /\ items[i].quantity = snap[i].quantity
                        /\ items[i].price = snap[i].product.price]_vars

\* A request committed a two-line order after the admin repriced one of its
\* products between the snapshot read and the commit: the item holds the
\* price of the snapshot.
C23_Witness ==
    /\ response.route = "orders"
    /\ response.kind = "Success"
    /\ Len(orders[response.ref].items) = 2
    /\ \E i \in 1 .. 2 :
            /\ orders[response.ref].items[i].price = 10
            /\ products[orders[response.ref].items[i].productId].price = 25

\* The outcomes of create-order other than success.
OrderFailures == PreconditionFailures \cup {"StorageFailure"}

\* C24: a create-order request reports success if and only if it committed
\* one new order with its items, the stock decrements and the clearing of the
\* cart. A request that ends, ends with a response of its route to its caller;
\* a response other than success is a failure and comes with no write to the
\* Order, OrderItem, Product and CartItem tables; and no order is added and no
\* stock changed by a step that does not report success.
C24_SuccessIffCommitted ==
    [][ /\ \A r \in OrderReqs :
            (OrderStep(r) /\ orderReq'[r].pc = "done") =>
                /\ response'.route = "orders"
                /\ IF response'.kind = "Success"
                   THEN LET u == orderReq[r].userId
                            snap == orderReq[r].cart
                        IN  /\ orderReq[r].pc = "transaction"
                            /\ response'.userId = u
                            /\ Len(orders') = Len(orders) + 1
                            /\ SubSeq(orders', 1, Len(orders)) = orders
                            /\ Len(orders'[Len(orders')].items) = Len(snap)
                            /\ Len(snap) >= 1
                            /\ \A p \in Existing :
                                    products'[p].stock
                                        = products[p].stock - SoldInItems(snap, Len(snap), p)
                            /\ cartItems'[u] = <<>>
                   ELSE /\ response'.kind \in OrderFailures
                        /\ UNCHANGED OrderTables
        /\ (orders' # orders \/ products' # products) =>
                /\ response'.route = "orders"
                /\ response'.kind = "Success"
                /\ \E r \in OrderReqs : orderReq[r].pc = "transaction" /\ orderReq'[r].pc = "done" ]_vars

\* Both requests ended: one committed the only order on record, the last one
\* failed at its commit and left the caller's cart as it was.
C24_Witness ==
    /\ response.route = "orders"
    /\ response.kind = "StorageFailure"
    /\ response.detail = "commit"
    /\ Len(orders) = 1
    /\ \A r \in OrderReqs : orderReq[r].pc = "done"
    /\ cartItems[response.userId] # <<>>

\* C25: every cart row a successful create-order removes is a line of the
\* order it created, with the same product and quantity: a row added or
\* changed by a cart request after the snapshot read is not removed without
\* being ordered.
C25_ClearedRowsAreOrdered ==
    [][\A r \in OrderReqs :
        ( /\ orderReq[r].pc = "transaction"
          /\ OrderStep(r)
          /\ response'.kind = "Success" )
            => LET u == orderReq[r].userId
                   items == orders'[Len(orders')].items
               IN  \A i \in 1 .. Len(cartItems[u]) :
                        \/ \E k \in 1 .. Len(cartItems'[u]) : cartItems'[u][k] = cartItems[u][i]
                        \/ \E k \in 1 .. Len(items) :
                                /\ items[k].productId = cartItems[u][i].productId
                                /\ items[k].quantity = cartItems[u][i].quantity]_vars

\* C26: a cart is converted into at most one order. A create-order request
\* commits only lines that are still in the caller's cart: when two requests
\* of one user read the same cart, the one that commits second finds the cart
\* already converted and creates no order and decrements no stock.
C26_CartConvertedOnce ==
    [][\A r \in OrderReqs :
        ( /\ orderReq[r].pc = "transaction"
          /\ OrderStep(r)
          /\ response'.kind = "Success" )
            => LET u == orderReq[r].userId
                   snap == orderReq[r].cart
               IN  \A i \in 1 .. Len(snap) : CartIndex(cartItems[u], snap[i].productId) # 0]_vars

\* C27: stock conservation. With no admin edit of a product, in every state
\* the stock of a product plus the quantities of all order items that
\* reference it is the product's initial stock, under every interleaving of
\* create-order, payment and admin status-update requests.
C27_StockConservation ==
    \A p \in Existing : products[p].stock + SoldQty(p) = InitStock

\* Two orders are on record, one cancelled by the admin and one paid; product
\* 1 has given out at least 2 units and holds the rest of its initial stock.
C27_Witness ==
    /\ Len(orders) = 2
    /\ orders[1].status = "CANCELLED"
    /\ orders[2].status = "PAID"
    /\ SoldQty(1) >= 2
    /\ products[1].stock = InitStock - SoldQty(1)

\* C28: the frame of create-order. A request of user U that succeeds leaves
\* the cart of every other user, and every product that is not on a line of
\* the snapshot U's request read, as they are.
C28_CreateOrderFrame ==
    [][\A r \in OrderReqs :
        ( /\ orderReq[r].pc = "transaction"
          /\ OrderStep(r)
          /\ response'.kind = "Success" )
            => LET u == orderReq[r].userId
                   snap == orderReq[r].cart
               IN  /\ \A w \in UserIds \ {u} : cartItems'[w] = cartItems[w]
                   /\ DOMAIN products' = DOMAIN products
                   /\ \A p \in DOMAIN products :
                        (\A i \in 1 .. Len(snap) : snap[i].productId # p)
                            => products'[p] = products[p]]_vars

\* A request with a one-line cart succeeded while the other user holds a cart
\* with the same product; the product that is not in the order has its
\* initial stock.
C28_Witness ==
    /\ response.route = "orders"
    /\ response.kind = "Success"
    /\ Len(orders[response.ref].items) = 1
    /\ \E w \in UserIds \ {response.userId} :
            /\ Len(cartItems[w]) = 1
            /\ CartIndex(cartItems[w], orders[response.ref].items[1].productId) # 0
    /\ \E p \in Existing :
            /\ p # orders[response.ref].items[1].productId
            /\ products[p].stock = InitStock

\* C29: the system never loses its last administrator: after any sequence of
\* role updates (allowed only to a caller whose session role is ADMIN, and
\* refused when the target is the caller), with sessions that keep the role
\* of their sign-in, at least one user has the ADMIN role.
C29_AdminRemains ==
    \E u \in DOMAIN users : users[u] = "ADMIN"

====
